---- MODULE Spec2Model ----
(***************************************************************************)
(* Path analysis of pymaze's dataset generator: the breadth-first          *)
(* shortest-path search over a maze's wall grid (compute_shortest_path),   *)
(* the derivation of incorrect path variants (build_incorrect_paths) and   *)
(* the sampling loop that accepts or discards mazes (run_generation).      *)
(***************************************************************************)
EXTENDS Integers, Sequences, FiniteSets, Bags, TLC

VARIABLES pc, maze, shortest_path, incorrect_paths,
          counts, seen_hashes, maze_index, attempts, accepted

vars == <<pc, maze, shortest_path, incorrect_paths,
          counts, seen_hashes, maze_index, attempts, accepted>>

path_vars == <<maze, shortest_path, incorrect_paths>>

run_vars == <<counts, seen_hashes, maze_index, attempts, accepted>>

(***************************************************************************)
(* Bounds of the model.                                                    *)
(***************************************************************************)
\* The largest number of cells of a maze the path analysis is given.
MaxCells == 6

\* The sampling loop of run_generation, scaled down: the longest target path
\* length (7 there), the quota of accepted mazes per path length (7 there)
\* and the attempt budget (100000 there).
MaxTargetLength == 3

images_per_length == 2

max_attempts == 8

target_lengths == 1..MaxTargetLength

(***************************************************************************)
(* The maze data the path finder reads: num_rows, num_cols, grid (a wall   *)
(* flag per cell and side, TRUE = wall present), entry_coor, exit_coor.    *)
(***************************************************************************)
Sides == <<"top", "right", "bottom", "left">>

SideSet == {Sides[i] : i \in 1..Len(Sides)}

None == <<>>

Cells(R, C) == (0..(R - 1)) \X (0..(C - 1))

\* The unordered pairs of 4-adjacent cells of an R x C grid, each written
\* <<a, b>> with b to the right of a or one row after a.
InnerEdges(R, C) ==
    {<<a, b>> \in Cells(R, C) \X Cells(R, C) :
        \/ (b[1] = a[1] /\ b[2] = a[2] + 1)
        \/ (b[2] = a[2] /\ b[1] = a[1] + 1)}

\* The side of cell a that faces the adjacent cell b; rows grow towards
\* "bottom", columns towards "right".
Facing(a, b) ==
    IF b[1] = a[1] - 1 THEN "top"
    ELSE IF b[1] = a[1] + 1 THEN "bottom"
    ELSE IF b[2] = a[2] - 1 THEN "left"
    ELSE "right"

\* The cell next to a across the given side (possibly outside the grid).
Across(a, side) ==
    IF side = "top" THEN <<a[1] - 1, a[2]>>
    ELSE IF side = "bottom" THEN <<a[1] + 1, a[2]>>
    ELSE IF side = "left" THEN <<a[1], a[2] - 1>>
    ELSE <<a[1], a[2] + 1>>

\* The outward-facing side that is absent at a border cell marked as entry or
\* exit (the first that applies of top, bottom, left, right), "none" inside.
GateSide(R, C, cell) ==
    IF cell[1] = 0 THEN "top"
    ELSE IF cell[1] = R - 1 THEN "bottom"
    ELSE IF cell[2] = 0 THEN "left"
    ELSE IF cell[2] = C - 1 THEN "right"
    ELSE "none"

\* A wall grid in which exactly the inner edges of `open` are carved (on both
\* sides) and the cells in `gates` have their gate side absent.
WallGrid(R, C, open, gates) ==
    [cell \in Cells(R, C) |->
        [side \in SideSet |->
            LET other == Across(cell, side) IN
            IF other \in Cells(R, C)
            THEN ~(<<cell, other>> \in open \/ <<other, cell>> \in open)
            ELSE ~(cell \in gates /\ GateSide(R, C, cell) = side)]]

Mazes(R, C) ==
    {[num_rows |-> R, num_cols |-> C,
      grid |-> WallGrid(R, C, open, IF gated THEN {e, x} ELSE {}),
      entry_coor |-> e, exit_coor |-> x] :
        open \in SUBSET InnerEdges(R, C), gated \in BOOLEAN,
        e \in Cells(R, C), x \in Cells(R, C)}

(***************************************************************************)
(* compute_shortest_path                                                   *)
(***************************************************************************)
\* get_neighbors without the wall tests: every 4-neighbour inside the grid.
get_neighbors_through_walls(m, cell) ==
    LET r == cell[1]
        c == cell[2]
    IN  (IF r > 0 THEN <<<<r - 1, c>>>> ELSE <<>>)
        \o (IF c < m.num_cols - 1 THEN <<<<r, c + 1>>>> ELSE <<>>)
        \o (IF r < m.num_rows - 1 THEN <<<<r + 1, c>>>> ELSE <<>>)
        \o (IF c > 0 THEN <<<<r, c - 1>>>> ELSE <<>>)

\* get_neighbors without the range tests on r and c: an absent wall is
\* followed wherever it leads (a cell outside the grid has no walls to read
\* and yields no neighbours).
get_neighbors_unbounded(m, cell) ==
    LET r == cell[1]
        c == cell[2]
        walls == IF cell \in DOMAIN m.grid THEN m.grid[cell]
                 ELSE [side \in SideSet |-> TRUE]
    IN  (IF ~walls["top"] THEN <<<<r - 1, c>>>> ELSE <<>>)
        \o (IF ~walls["right"] THEN <<<<r, c + 1>>>> ELSE <<>>)
        \o (IF ~walls["bottom"] THEN <<<<r + 1, c>>>> ELSE <<>>)
        \o (IF ~walls["left"] THEN <<<<r, c - 1>>>> ELSE <<>>)

get_neighbors(m, cell) ==
    LET r == cell[1]
        c == cell[2]
        walls == m.grid[cell]
    IN  (IF ~walls["top"] /\ r > 0 THEN <<<<r - 1, c>>>> ELSE <<>>)
        \o (IF ~walls["right"] /\ c < m.num_cols - 1 THEN <<<<r, c + 1>>>> ELSE <<>>)
        \o (IF ~walls["bottom"] /\ r < m.num_rows - 1 THEN <<<<r + 1, c>>>> ELSE <<>>)
        \o (IF ~walls["left"] /\ c > 0 THEN <<<<r, c - 1>>>> ELSE <<>>)

\* The for loop over the neighbours of `current`: every neighbour without a
\* parent gets `current` as parent and joins the back of the queue.
RECURSIVE Expand(_, _, _, _)
Expand(neighbors, current, queue, parents) ==
    IF neighbors = <<>> THEN [queue |-> queue, parents |-> parents]
    ELSE LET neighbor == Head(neighbors) IN
         IF neighbor \in DOMAIN parents
         THEN Expand(Tail(neighbors), current, queue, parents)
         ELSE Expand(Tail(neighbors), current, Append(queue, neighbor),
                     parents @@ (neighbor :> current))

\* The while loop with queue.pop() in place of queue.popleft().
RECURSIVE Search_lifo(_, _, _)
Search_lifo(m, queue, parents) ==
    IF queue = <<>> THEN parents
    ELSE LET current == queue[Len(queue)] IN
         IF current = m.exit_coor THEN parents
         ELSE LET next == Expand(get_neighbors(m, current), current,
                                 SubSeq(queue, 1, Len(queue) - 1), parents)
              IN  Search_lifo(m, next.queue, next.parents)

\* The while loop: pop the front of the queue, stop at the goal.
RECURSIVE Search(_, _, _)
Search(m, queue, parents) ==
    IF queue = <<>> THEN parents
    ELSE LET current == Head(queue) IN
         IF current = m.exit_coor THEN parents
         ELSE LET next == Expand(get_neighbors(m, current), current,
                                 Tail(queue), parents)
              IN  Search(m, next.queue, next.parents)

\* The goal-first list built by following the parent pointers.
RECURSIVE WalkBack(_, _)
WalkBack(node, parents) ==
    IF node = None THEN <<>>
    ELSE <<node>> \o WalkBack(parents[node], parents)

Reverse(s) == [i \in 1..Len(s) |-> s[Len(s) + 1 - i]]

\* direction_map labelled by the sign of the row change.
direction_map_by_row ==
    (<<-1, 0>> :> <<"up", 1>>) @@ (<<1, 0>> :> <<"down", 0>>)
    @@ (<<0, -1>> :> <<"left", 2>>) @@ (<<0, 1>> :> <<"right", 3>>)

direction_map ==
    (<<-1, 0>> :> <<"down", 0>>) @@ (<<1, 0>> :> <<"up", 1>>)
    @@ (<<0, -1>> :> <<"left", 2>>) @@ (<<0, 1>> :> <<"right", 3>>)

\* The label/code pair of the step from path[i] to path[i + 1].
StepLabel(path, i) ==
    direction_map[<<path[i + 1][1] - path[i][1], path[i + 1][2] - path[i][2]>>]

\* compute_shortest_path answering an unreachable goal with the path that
\* stays at the start.
compute_shortest_path_from_start(m) ==
    LET start == m.entry_coor
        goal == m.exit_coor
        parents == Search(m, <<start>>, (start :> None))
        path == IF goal \in DOMAIN parents
                THEN Reverse(WalkBack(goal, parents))
                ELSE <<start>>
    IN  [coordinates |-> path,
         directions |-> [i \in 1..(Len(path) - 1) |-> StepLabel(path, i)[1]],
         directions_numeric |-> [i \in 1..(Len(path) - 1) |-> StepLabel(path, i)[2]]]

compute_shortest_path(m) ==
    LET start == m.entry_coor
        goal == m.exit_coor
        parents == Search(m, <<start>>, (start :> None))
    IN  IF goal \notin DOMAIN parents
        THEN [coordinates |-> <<>>, directions |-> <<>>,
              directions_numeric |-> <<>>]
        ELSE LET path == Reverse(WalkBack(goal, parents)) IN
             [coordinates |-> path,
              directions |-> [i \in 1..(Len(path) - 1) |-> StepLabel(path, i)[1]],
              directions_numeric |-> [i \in 1..(Len(path) - 1) |-> StepLabel(path, i)[2]]]

(***************************************************************************)
(* build_incorrect_paths                                                   *)
(***************************************************************************)
direction_labels == <<"up", "down", "left", "right">>

\* dir_to_numeric with the codes of up and down exchanged.
dir_to_numeric_swapped == [d \in {"up", "down", "left", "right"} |->
    IF d = "up" THEN 0 ELSE IF d = "down" THEN 1 ELSE IF d = "left" THEN 2 ELSE 3]

dir_to_numeric == [d \in {"up", "down", "left", "right"} |->
    IF d = "up" THEN 1 ELSE IF d = "down" THEN 0 ELSE IF d = "left" THEN 2 ELSE 3]

Range(s) == {s[i] : i \in 1..Len(s)}

\* The substitution candidates without the filter.
alternatives_unfiltered(current_dir) == direction_labels

\* The substitution candidates: the labels other than current_dir.
alternatives(current_dir) ==
    SelectSeq(direction_labels, LAMBDA d : d # current_dir)

\* substitution_variant that records the change but leaves the labels as they
\* were.
substitution_variant_stale(directions, numeric, idx, new_dir) ==
    [modified_index |-> idx,
     original_direction |-> directions[idx + 1],
     new_direction |-> new_dir,
     directions |-> directions,
     directions_numeric |-> [numeric EXCEPT ![idx + 1] = dir_to_numeric[new_dir]]]

\* idx is 0-based, as random.randrange returns it.
substitution_variant(directions, numeric, idx, new_dir) ==
    [modified_index |-> idx,
     original_direction |-> directions[idx + 1],
     new_direction |-> new_dir,
     directions |-> [directions EXCEPT ![idx + 1] = new_dir],
     directions_numeric |-> [numeric EXCEPT ![idx + 1] = dir_to_numeric[new_dir]]]

addition_variant(directions, numeric, add_dir) ==
    [added_direction |-> add_dir,
     directions |-> directions \o <<add_dir>>,
     directions_numeric |-> numeric \o <<dir_to_numeric[add_dir]>>]

\* subtraction_variant produced for every non-empty path.
subtraction_variant_nonempty(directions, numeric) ==
    IF Len(directions) > 0
    THEN [removed_direction |-> directions[Len(directions)],
          directions |-> SubSeq(directions, 1, Len(directions) - 1),
          directions_numeric |-> SubSeq(numeric, 1, Len(numeric) - 1)]
    ELSE None

subtraction_variant(directions, numeric) ==
    IF Len(directions) > 1
    THEN [removed_direction |-> directions[Len(directions)],
          directions |-> SubSeq(directions, 1, Len(directions) - 1),
          directions_numeric |-> SubSeq(numeric, 1, Len(numeric) - 1)]
    ELSE None

\* build_incorrect_paths with the addition appended to the substituted path.
build_incorrect_paths_chained(sp, idx, new_dir, add_dir) ==
    LET directions == sp.directions
        numeric == sp.directions_numeric
        sub == substitution_variant(directions, numeric, idx, new_dir)
    IN  IF directions # <<>>
        THEN [substitution |-> sub,
              addition |-> addition_variant(sub.directions,
                                            sub.directions_numeric, add_dir),
              subtraction |-> subtraction_variant(directions, numeric)]
        ELSE [substitution |-> None, addition |-> None, subtraction |-> None]

\* build_incorrect_paths with the addition outside the test for directions.
build_incorrect_paths_addition_always(sp, idx, new_dir, add_dir) ==
    LET directions == sp.directions
        numeric == sp.directions_numeric
    IN  [substitution |->
            IF directions # <<>>
            THEN substitution_variant(directions, numeric, idx, new_dir)
            ELSE None,
         addition |-> addition_variant(directions, numeric, add_dir),
         subtraction |->
            IF directions # <<>>
            THEN subtraction_variant(directions, numeric)
            ELSE None]

\* idx, new_dir and add_dir are the three random draws of the call.
build_incorrect_paths(sp, idx, new_dir, add_dir) ==
    LET directions == sp.directions
        numeric == sp.directions_numeric
    IN  IF directions # <<>>
        THEN [substitution |-> substitution_variant(directions, numeric, idx, new_dir),
              addition |-> addition_variant(directions, numeric, add_dir),
              subtraction |-> subtraction_variant(directions, numeric)]
        ELSE [substitution |-> None, addition |-> None, subtraction |-> None]

\* Every outcome the random draws of build_incorrect_paths can produce.
IncorrectPathsOf(sp) ==
    IF sp.directions = <<>>
    THEN {build_incorrect_paths(sp, 0, "up", "up")}
    ELSE UNION {{build_incorrect_paths(sp, idx, new_dir, add_dir) :
                    new_dir \in Range(alternatives(sp.directions[idx + 1])),
                    add_dir \in Range(direction_labels)} :
                idx \in 0..(Len(sp.directions) - 1)}

(***************************************************************************)
(* The path analysis as a state machine: a maze is given, its shortest     *)
(* path is computed, the incorrect variants are derived from the path.     *)
(***************************************************************************)
NoPath == [coordinates |-> <<>>, directions |-> <<>>, directions_numeric |-> <<>>]

NoVariants == [substitution |-> None, addition |-> None, subtraction |-> None]

RunInit ==
    /\ counts = [length \in target_lengths |-> 0]
    /\ seen_hashes = {}
    /\ maze_index = 1
    /\ attempts = 0
    /\ accepted = EmptyBag

Init ==
    /\ pc = "maze"
    /\ \E R \in 1..MaxCells, C \in 1..MaxCells :
          R * C <= MaxCells /\ maze \in Mazes(R, C)
    /\ shortest_path = NoPath
    /\ incorrect_paths = NoVariants
    /\ RunInit

\* ComputeShortestPath with a search that moves the maze's entry marker along
\* to the cell where the search ended.
ComputeShortestPath_moving_entry ==
    /\ pc = "maze"
    /\ shortest_path' = compute_shortest_path(maze)
    /\ pc' = "path"
    /\ maze' = [maze EXCEPT !.entry_coor = maze.exit_coor]
    /\ UNCHANGED incorrect_paths
    /\ UNCHANGED run_vars

ComputeShortestPath ==
    /\ pc = "maze"
    /\ shortest_path' = compute_shortest_path(maze)
    /\ pc' = "path"
    /\ UNCHANGED <<maze, incorrect_paths>>
    /\ UNCHANGED run_vars

BuildIncorrectPaths ==
    /\ pc = "path"
    /\ incorrect_paths' \in IncorrectPathsOf(shortest_path)
    /\ pc' = "variants"
    /\ UNCHANGED <<maze, shortest_path>>
    /\ UNCHANGED run_vars

Next == ComputeShortestPath \/ BuildIncorrectPaths

Spec == Init /\ [][Next]_vars

(***************************************************************************)
(* The path analysis of the mazes run_generation asks for (rows = cols =   *)
(* 3) in the scenario of entry (0,0) and exit (2,2), whatever the walls.   *)
(***************************************************************************)
rows == 3

cols == 3

ExampleMazes ==
    {[num_rows |-> rows, num_cols |-> cols,
      grid |-> WallGrid(rows, cols, open,
                        IF gated THEN {<<0, 0>>, <<2, 2>>} ELSE {}),
      entry_coor |-> <<0, 0>>, exit_coor |-> <<2, 2>>] :
        open \in SUBSET InnerEdges(rows, cols), gated \in BOOLEAN}

InitExample ==
    /\ pc = "maze"
    /\ maze \in ExampleMazes
    /\ shortest_path = NoPath
    /\ incorrect_paths = NoVariants
    /\ RunInit

SpecExample == InitExample /\ [][Next]_vars

(***************************************************************************)
(* run_generation: the sampling loop.  manager.add_maze(rows, cols) hands  *)
(* over a maze of 3 x 3 cells; the loop discards it, rejects it as a       *)
(* duplicate, skips it for its path length, or accepts and writes it.      *)
(* accepted is the bag of mazes whose images and metadata.json have been   *)
(* written; the incorrect_paths field of a metadata.json is what           *)
(* BuildIncorrectPaths yields for the shortest path, and the loop does not *)
(* read it.                                                                *)
(***************************************************************************)
\* A route through all nine cells; the walls along it are carved.
Snake == <<<<0, 0>>, <<0, 1>>, <<0, 2>>, <<1, 2>>, <<1, 1>>, <<1, 0>>,
           <<2, 0>>, <<2, 1>>, <<2, 2>>>>

SnakeEdges == {<<Snake[i], Snake[i + 1]>> : i \in 1..(Len(Snake) - 1)}

GatedMaze(open, e, x) ==
    [num_rows |-> rows, num_cols |-> cols,
     grid |-> WallGrid(rows, cols, open, {e, x}),
     entry_coor |-> e, exit_coor |-> x]

\* The entry/exit pairs of the mazes handed over, by their distance along
\* Snake; the last pair is the first one with entry and exit exchanged.
EntryExitPairs ==
    {<<<<0, 0>>, <<0, 1>>>>, <<<<0, 1>>, <<0, 2>>>>, <<<<0, 2>>, <<1, 2>>>>,
     <<<<0, 0>>, <<0, 2>>>>, <<<<0, 1>>, <<1, 2>>>>,
     <<<<0, 0>>, <<1, 2>>>>, <<<<0, 2>>, <<1, 0>>>>,
     <<<<0, 1>>, <<1, 0>>>>,
     <<<<0, 1>>, <<0, 0>>>>}

\* The mazes add_maze may hand over: the perfect maze carved along Snake with
\* one of the entry/exit pairs, and a malformed one whose exit cell is walled
\* in.
GeneratedMazes ==
    {GatedMaze(SnakeEdges, p[1], p[2]) : p \in EntryExitPairs}
    \cup {GatedMaze(SnakeEdges \ {<<Snake[8], Snake[9]>>}, <<0, 0>>, <<2, 2>>)}

\* hash_key that also covers the entry and the exit.
hash_key_with_endpoints(m) ==
    <<m.entry_coor, m.exit_coor, [cell \in Cells(m.num_rows, m.num_cols) |-> m.grid[cell]]>>

hash_key(m) ==
    [k \in 1..(m.num_rows * m.num_cols) |->
        LET cell == <<(k - 1) \div m.num_cols, (k - 1) % m.num_cols>> IN
        [i \in 1..Len(Sides) |-> <<Sides[i], m.grid[cell][Sides[i]]>>]]

\* compute_shortest_path and hash_key of the mazes handed over.
PoolPath == [m \in GeneratedMazes |-> compute_shortest_path(m)]

PoolHash == [m \in GeneratedMazes |-> hash_key(m)]

InitRun ==
    /\ pc = "loop"
    /\ maze = None
    /\ shortest_path = NoPath
    /\ incorrect_paths = NoVariants
    /\ RunInit

\* The while condition with all(...) in place of any(...).
QuotaOpen_all == \A length \in target_lengths : counts[length] < images_per_length

\* The condition of the while loop.
QuotaOpen == \E length \in target_lengths : counts[length] < images_per_length

\* attempts += 1 takes the counter over the budget: RuntimeError.
Exceeded ==
    /\ pc = "loop"
    /\ QuotaOpen
    /\ attempts + 1 > max_attempts
    /\ attempts' = attempts + 1
    /\ pc' = "error"
    /\ UNCHANGED <<maze, shortest_path, incorrect_paths, counts, seen_hashes,
                   maze_index, accepted>>

\* The head of an iteration up to the call of compute_shortest_path.
Attempt(m) ==
    /\ pc = "loop"
    /\ QuotaOpen
    /\ attempts + 1 <= max_attempts
    /\ attempts' = attempts + 1
    /\ maze' = m
    /\ shortest_path' = PoolPath[m]
    /\ pc' = "loop"

DiscardUnreachable ==
    \E m \in GeneratedMazes :
        /\ Attempt(m)
        /\ shortest_path'.coordinates = <<>>
        /\ UNCHANGED <<incorrect_paths, counts, seen_hashes, maze_index,
                       accepted>>

RejectDuplicate ==
    \E m \in GeneratedMazes :
        /\ Attempt(m)
        /\ shortest_path'.coordinates # <<>>
        /\ PoolHash[m] \in seen_hashes
        /\ UNCHANGED <<incorrect_paths, counts, seen_hashes, maze_index,
                       accepted>>

\* SkipPathLength with seen_hashes.add placed after the test of the path
\* length and quota: a skipped maze is not remembered.
SkipPathLength_forgetting ==
    \E m \in GeneratedMazes :
        /\ Attempt(m)
        /\ shortest_path'.coordinates # <<>>
        /\ PoolHash[m] \notin seen_hashes
        /\ LET path_steps == Len(shortest_path'.directions) IN
           IF path_steps \notin DOMAIN counts THEN TRUE
           ELSE counts[path_steps] >= images_per_length
        /\ UNCHANGED <<incorrect_paths, counts, seen_hashes, maze_index,
                       accepted>>

SkipPathLength ==
    \E m \in GeneratedMazes :
        /\ Attempt(m)
        /\ shortest_path'.coordinates # <<>>
        /\ PoolHash[m] \notin seen_hashes
        /\ seen_hashes' = seen_hashes \cup {PoolHash[m]}
        /\ LET path_steps == Len(shortest_path'.directions) IN
           IF path_steps \notin DOMAIN counts THEN TRUE
           ELSE counts[path_steps] >= images_per_length
        /\ UNCHANGED <<incorrect_paths, counts, maze_index, accepted>>

\* Accept without the test of the counter against images_per_length.
Accept_over_quota ==
    \E m \in GeneratedMazes :
        /\ Attempt(m)
        /\ shortest_path'.coordinates # <<>>
        /\ PoolHash[m] \notin seen_hashes
        /\ seen_hashes' = seen_hashes \cup {PoolHash[m]}
        /\ LET path_steps == Len(shortest_path'.directions) IN
           /\ path_steps \in DOMAIN counts
           /\ counts' = [counts EXCEPT ![path_steps] = @ + 1]
        /\ UNCHANGED incorrect_paths
        /\ accepted' = accepted (+) SetToBag({m})
        /\ maze_index' = maze_index + 1

Accept ==
    \E m \in GeneratedMazes :
        /\ Attempt(m)
        /\ shortest_path'.coordinates # <<>>
        /\ PoolHash[m] \notin seen_hashes
        /\ seen_hashes' = seen_hashes \cup {PoolHash[m]}
        /\ LET path_steps == Len(shortest_path'.directions) IN
           /\ path_steps \in DOMAIN counts
           /\ counts[path_steps] < images_per_length
           /\ counts' = [counts EXCEPT ![path_steps] = @ + 1]
        /\ UNCHANGED incorrect_paths
        /\ accepted' = accepted (+) SetToBag({m})
        /\ maze_index' = maze_index + 1

\* The while condition fails: the completion report is printed.
Completed ==
    /\ pc = "loop"
    /\ ~QuotaOpen
    /\ pc' = "done"
    /\ UNCHANGED <<maze, shortest_path, incorrect_paths, counts, seen_hashes,
                   maze_index, attempts, accepted>>

NextRun ==
    \/ Exceeded
    \/ DiscardUnreachable
    \/ RejectDuplicate
    \/ SkipPathLength
    \/ Accept
    \/ Completed

SpecRun == InitRun /\ [][NextRun]_vars

\* The loop is one sequential thread of control: while an iteration or the
\* exit from the loop is possible, the interpreter takes it.
SpecRunFair == SpecRun /\ WF_vars(NextRun)

(***************************************************************************)
(* The path analysis on its own and the sampling loop, side by side.       *)
(***************************************************************************)
InitProgram == Init \/ InitRun

NextProgram == Next \/ NextRun

SpecProgram == InitProgram /\ [][NextProgram]_vars

(***************************************************************************)
(* The generator behind manager.add_maze: randomized depth-first           *)
(* backtracking.  While pc = "carve", maze holds the grid under            *)
(* construction together with the generator's working data: the cells      *)
(* visited so far, the visit stack and the current cell.  The finished     *)
(* maze keeps the grid, the entry and exit and the generation path.        *)
(***************************************************************************)
\* The grid before carving: every wall present.
initial_grid(R, C) == [cell \in Cells(R, C) |-> [side \in SideSet |-> TRUE]]

\* The wall of cell a that faces cell b is cleared (one side).
remove_walls(grid, a, b) == [grid EXCEPT ![a][Facing(a, b)] = FALSE]

\* A carve step that clears the wall on the side of the current cell only.
carve_one_side(grid, a, b) == remove_walls(grid, a, b)

\* A carve step: the wall between a and b is cleared on both sides.
carve(grid, a, b) == remove_walls(remove_walls(grid, a, b), b, a)

\* The 4-neighbours of the current cell that have not been visited.
unvisited_neighbours(m) ==
    {b \in {Across(m.current, side) : side \in SideSet} :
        b \in Cells(m.num_rows, m.num_cols) /\ b \notin m.visited}

\* Carving that ends at the first cell without an unvisited neighbour.
carving_done_at_dead_end(m) == unvisited_neighbours(m) = {}

\* Carving ends when the current cell has no unvisited neighbour and the
\* visit stack is empty.
carving_done(m) == unvisited_neighbours(m) = {} /\ m.stack = <<>>

\* The cells on the boundary of the grid.
Border(R, C) == {cell \in Cells(R, C) : GateSide(R, C, cell) # "none"}

\* The outward wall of a border cell marked as entry or exit is cleared.
set_as_entry_exit(grid, R, C, cell) ==
    [grid EXCEPT ![cell][GateSide(R, C, cell)] = FALSE]

InitCarve ==
    /\ pc = "carve"
    /\ \E R \in 1..MaxCells, C \in 1..MaxCells :
          /\ (R * C <= MaxCells \/ (R = rows /\ C = cols))
          /\ \E start \in Cells(R, C) :
                maze = [num_rows |-> R, num_cols |-> C,
                        grid |-> initial_grid(R, C),
                        entry_coor |-> None, exit_coor |-> None,
                        generation_path |-> <<start>>,
                        visited |-> {start}, stack |-> <<>>,
                        current |-> start]
    /\ shortest_path = NoPath
    /\ incorrect_paths = NoVariants
    /\ RunInit

\* Move to an unvisited neighbour, carving the wall in between.
CarveForward ==
    /\ pc = "carve"
    /\ \E next \in unvisited_neighbours(maze) :
          maze' = [maze EXCEPT
                     !.grid = carve(maze.grid, maze.current, next),
                     !.visited = @ \cup {next},
                     !.stack = Append(@, maze.current),
                     !.current = next,
                     !.generation_path = Append(@, next)]
    /\ UNCHANGED <<pc, shortest_path, incorrect_paths>>
    /\ UNCHANGED run_vars

\* No unvisited neighbour: step back to the cell on top of the visit stack.
Backtrack ==
    /\ pc = "carve"
    /\ unvisited_neighbours(maze) = {}
    /\ maze.stack # <<>>
    /\ LET back == maze.stack[Len(maze.stack)] IN
       maze' = [maze EXCEPT
                  !.stack = SubSeq(@, 1, Len(@) - 1),
                  !.current = back,
                  !.generation_path = Append(@, back)]
    /\ UNCHANGED <<pc, shortest_path, incorrect_paths>>
    /\ UNCHANGED run_vars

\* Carving is over: entry and exit are chosen among the border cells,
\* distinct unless the grid has a single cell, and marked on the grid.
FinishCarve ==
    /\ pc = "carve"
    /\ carving_done(maze)
    /\ LET R == maze.num_rows
           C == maze.num_cols
       IN  \E e \in Border(R, C), x \in Border(R, C) :
              /\ e # x \/ R * C = 1
              /\ maze' = [num_rows |-> R, num_cols |-> C,
                          grid |-> set_as_entry_exit(
                                     set_as_entry_exit(maze.grid, R, C, e),
                                     R, C, x),
                          entry_coor |-> e, exit_coor |-> x,
                          generation_path |-> maze.generation_path]
    /\ pc' = "maze"
    /\ UNCHANGED <<shortest_path, incorrect_paths>>
    /\ UNCHANGED run_vars

\* animate_walls(frame): the walls between the cells of frame - 1 and frame
\* of the generation path are removed, from either cell.
animate_walls(grid, generation_path, frame) ==
    IF frame > 0
    THEN remove_walls(remove_walls(grid, generation_path[frame],
                                   generation_path[frame + 1]),
                      generation_path[frame + 1], generation_path[frame])
    ELSE grid

\* The grid after the frames 0 .. frame of the animation.
RECURSIVE Replayed(_, _, _)
Replayed(grid, generation_path, frame) ==
    IF frame < 0 THEN grid
    ELSE animate_walls(Replayed(grid, generation_path, frame - 1),
                       generation_path, frame)

\* show_generation_animation: every frame of the generation path is played
\* on the maze's grid.
ShowGenerationAnimation ==
    /\ pc = "maze"
    /\ maze' = [maze EXCEPT
                  !.grid = Replayed(@, maze.generation_path,
                                    Len(maze.generation_path) - 1)]
    /\ pc' = "shown"
    /\ UNCHANGED <<shortest_path, incorrect_paths>>
    /\ UNCHANGED run_vars

NextCarve ==
    \/ CarveForward
    \/ Backtrack
    \/ FinishCarve
    \/ ShowGenerationAnimation
    \/ ComputeShortestPath

SpecCarve == InitCarve /\ [][NextCarve]_vars

(***************************************************************************)
(* Reference notions the properties are stated with, defined on the wall   *)
(* grid alone and independently of the search.                             *)
(***************************************************************************)
GridCells(m) == Cells(m.num_rows, m.num_cols)

Adjacent(a, b) ==
    \/ (a[1] = b[1] /\ (a[2] = b[2] + 1 \/ b[2] = a[2] + 1))
    \/ (a[2] = b[2] /\ (a[1] = b[1] + 1 \/ b[1] = a[1] + 1))

\* a and b are cells of the grid, 4-neighbours, and the wall they share is
\* absent (seen from either cell).
OpenStep(m, a, b) ==
    /\ a \in GridCells(m)
    /\ b \in GridCells(m)
    /\ Adjacent(a, b)
    /\ ~m.grid[a][Facing(a, b)]
    /\ ~m.grid[b][Facing(b, a)]

\* The cells one open step away from a.
OpenNeighbours(m, a) ==
    {b \in {Across(a, side) : side \in SideSet} : OpenStep(m, a, b)}

Grow(m, S) == S \cup UNION {OpenNeighbours(m, a) : a \in S}

RECURSIVE Closure(_, _)
Closure(m, S) ==
    LET T == Grow(m, S) IN IF T = S THEN S ELSE Closure(m, T)

Reachable(m) == m.exit_coor \in Closure(m, {m.entry_coor})

\* The least number of open steps from the cells of S to the exit, plus k.
RECURSIVE StepsFrom(_, _, _)
StepsFrom(m, S, k) ==
    IF m.exit_coor \in S THEN k ELSE StepsFrom(m, Grow(m, S), k + 1)

Distance(m) == StepsFrom(m, {m.entry_coor}, 0)

\* Every route without a repeated cell that continues p to the exit.
RECURSIVE SimpleRoutes(_, _)
SimpleRoutes(m, p) ==
    IF p[Len(p)] = m.exit_coor THEN {p}
    ELSE UNION {SimpleRoutes(m, Append(p, b)) :
                  b \in OpenNeighbours(m, p[Len(p)]) \ Range(p)}

OpenEdges(m) ==
    {e \in InnerEdges(m.num_rows, m.num_cols) : OpenStep(m, e[1], e[2])}

IsPerfect(m) ==
    /\ Closure(m, {<<0, 0>>}) = GridCells(m)
    /\ Cardinality(OpenEdges(m)) = m.num_rows * m.num_cols - 1

Computed == pc = "path"

\* C1: when the exit is reachable, the returned coordinates start at the
\* entry, end at the exit, move between 4-neighbours across absent walls only,
\* repeat no coordinate, and are one more than the directions and than the
\* numeric codes.
PathIsOpenSimpleRoute ==
    (Computed /\ Reachable(maze)) =>
        LET p == shortest_path.coordinates IN
        /\ Len(p) >= 1
        /\ p[1] = maze.entry_coor
        /\ p[Len(p)] = maze.exit_coor
        /\ \A i \in 1..(Len(p) - 1) : OpenStep(maze, p[i], p[i + 1])
        /\ \A i, j \in 1..Len(p) : i # j => p[i] # p[j]
        /\ Len(p) = Len(shortest_path.directions) + 1
        /\ Len(p) = Len(shortest_path.directions_numeric) + 1

\* A path of three or more steps has been found in a grid with a wall left
\* between two cells.
PathIsOpenSimpleRouteWitness ==
    /\ pc = "path"
    /\ Reachable(maze)
    /\ Len(shortest_path.directions) >= 3
    /\ OpenEdges(maze) # InnerEdges(maze.num_rows, maze.num_cols)

\* C2: when the exit is reachable, the returned path has the least number of
\* steps of all routes across absent walls, and in a perfect maze it is the
\* only simple route from entry to exit.
PathIsShortestAndOnlyInTree ==
    (Computed /\ Reachable(maze)) =>
        /\ Len(shortest_path.directions) = Distance(maze)
        /\ IsPerfect(maze) =>
               SimpleRoutes(maze, <<maze.entry_coor>>) = {shortest_path.coordinates}

\* A path has been found although a longer simple route exists as well.
PathIsShortestWitness ==
    /\ pc = "path"
    /\ Reachable(maze)
    /\ \E q \in SimpleRoutes(maze, <<maze.entry_coor>>) :
          Len(q) > Len(shortest_path.coordinates)

(***************************************************************************)
(* Properties of the incorrect variants.                                   *)
(***************************************************************************)
Labels == Range(direction_labels)

\* The unit move a label stands for under the path finder's direction_map.
DeltaOf(label) ==
    CHOOSE d \in DOMAIN direction_map : direction_map[d][1] = label

\* The cell reached by following directions as unit moves from start.
RECURSIVE EndCell(_, _)
EndCell(start, directions) ==
    IF directions = <<>> THEN start
    ELSE EndCell(<<start[1] + DeltaOf(Head(directions))[1],
                   start[2] + DeltaOf(Head(directions))[2]>>, Tail(directions))

Original == shortest_path.directions

\* C3: for a path with at least one direction the substitution variant has
\* the original's length, holds new_direction at modified_index, where
\* new_direction differs from original_direction and original_direction is the
\* original's entry there, and equals the original at every other index.
SubstitutionChangesOneEntry ==
    (pc = "variants" /\ Len(Original) >= 1) =>
        LET sub == incorrect_paths.substitution IN
        /\ sub # None
        /\ Len(sub.directions) = Len(Original)
        /\ sub.modified_index \in 0..(Len(Original) - 1)
        /\ sub.directions[sub.modified_index + 1] = sub.new_direction
        /\ sub.new_direction # sub.original_direction
        /\ sub.original_direction = Original[sub.modified_index + 1]
        /\ \A i \in 1..Len(Original) :
              i # sub.modified_index + 1 => sub.directions[i] = Original[i]

\* A substitution inside a path of three or more directions, neither at its
\* first nor at its last index.
SubstitutionWitness ==
    /\ pc = "variants"
    /\ Len(Original) >= 3
    /\ incorrect_paths.substitution.modified_index \in 1..(Len(Original) - 2)

\* C4: for a path with N >= 1 directions the addition variant has N + 1
\* directions, the first N being the original's (not the substitution's) and
\* the last the recorded added_direction; every one of the four labels can be
\* the added one, whatever the walls and bounds at the exit cell.
AdditionAppendsToOriginal ==
    /\ (pc = "variants" /\ Len(Original) >= 1) =>
          LET add == incorrect_paths.addition IN
          /\ add # None
          /\ Len(add.directions) = Len(Original) + 1
          /\ SubSeq(add.directions, 1, Len(Original)) = Original
          /\ add.directions[Len(Original) + 1] = add.added_direction
          /\ add.added_direction \in Labels
    /\ (pc = "path" /\ Len(Original) >= 1) =>
          \A d \in Labels : \E v \in IncorrectPathsOf(shortest_path) :
              v.addition.added_direction = d

\* An added direction that leaves the grid or runs into a wall at the exit.
AdditionWitness ==
    /\ pc = "variants"
    /\ Len(Original) >= 2
    /\ LET d == DeltaOf(incorrect_paths.addition.added_direction)
           x == maze.exit_coor
       IN  ~OpenStep(maze, x, <<x[1] + d[1], x[2] + d[2]>>)

\* C5: the subtraction variant is produced exactly when the original has more
\* than one direction; it is then the original without its last direction
\* (labels and codes) and records that last direction as removed; for exactly
\* one direction it is absent while substitution and addition are present.
SubtractionDropsLast ==
    pc = "variants" =>
        LET sub == incorrect_paths.subtraction
            N == Len(Original)
        IN  /\ (sub # None) <=> (N > 1)
            /\ sub # None =>
                  /\ sub.directions = SubSeq(Original, 1, N - 1)
                  /\ sub.directions_numeric =
                        SubSeq(shortest_path.directions_numeric, 1, N - 1)
                  /\ sub.removed_direction = Original[N]
            /\ N = 1 => /\ incorrect_paths.substitution # None
                        /\ incorrect_paths.addition # None

\* The variants of a path with exactly one direction.
SubtractionWitness ==
    /\ pc = "variants"
    /\ Len(Original) = 1
    /\ incorrect_paths.subtraction = None
    /\ incorrect_paths.addition # None

\* The variants build_incorrect_paths has produced.
Produced ==
    {v \in {incorrect_paths.substitution, incorrect_paths.addition,
            incorrect_paths.subtraction} : v # None}

\* C6: no produced variant, followed as unit moves from the entry cell, ends
\* on the exit cell.
VariantsMissTheExit ==
    pc = "variants" =>
        \A v \in Produced : EndCell(maze.entry_coor, v.directions) # maze.exit_coor

\* Three variants of a path, of which the substitution stays inside the grid.
VariantsMissTheExitWitness ==
    /\ pc = "variants"
    /\ Cardinality(Produced) = 3
    /\ EndCell(maze.entry_coor, incorrect_paths.substitution.directions)
          \in GridCells(maze)

\* C7: with entry equal to exit the path has the entry as its only coordinate
\* and zero directions, and from zero directions all three variants are absent.
DegenerateYieldsNoVariants ==
    /\ (Computed /\ maze.entry_coor = maze.exit_coor) =>
          /\ shortest_path.coordinates = <<maze.entry_coor>>
          /\ shortest_path.directions = <<>>
          /\ shortest_path.directions_numeric = <<>>
    /\ (pc = "variants" /\ Original = <<>>) =>
          /\ incorrect_paths.substitution = None
          /\ incorrect_paths.addition = None
          /\ incorrect_paths.subtraction = None

\* The variants of the path of a 1 x 1 maze.
DegenerateWitness ==
    /\ pc = "variants"
    /\ maze.num_rows = 1
    /\ maze.num_cols = 1
    /\ shortest_path.coordinates = <<<<0, 0>>>>
(***************************************************************************)
(* Direction labels of the example scenario.                               *)
(***************************************************************************)
\* Two columns to the right along row 0, then from row 0 to row 2.
ExampleRoute == <<<<0, 0>>, <<0, 1>>, <<0, 2>>, <<1, 2>>, <<2, 2>>>>

ExampleFound ==
    /\ pc = "path"
    /\ maze.num_rows = 3
    /\ maze.num_cols = 3
    /\ maze.entry_coor = <<0, 0>>
    /\ maze.exit_coor = <<2, 2>>
    /\ shortest_path.coordinates = ExampleRoute

\* C10, as stated: the route of the example is labelled right, right, down,
\* down with codes 3, 3, 0, 0.
ExampleLabelsAsStated ==
    ExampleFound =>
        /\ shortest_path.directions = <<"right", "right", "down", "down">>
        /\ shortest_path.directions_numeric = <<3, 3, 0, 0>>

\* C10, amended: the route of the example is labelled right, right, up, up
\* with codes 3, 3, 1, 1, a step to the next row being "up" (code 1).
ExampleLabels ==
    ExampleFound =>
        /\ shortest_path.directions = <<"right", "right", "up", "up">>
        /\ shortest_path.directions_numeric = <<3, 3, 1, 1>>

\* The example route found in a perfect maze.
ExampleLabelsWitness == ExampleFound /\ IsPerfect(maze)
(***************************************************************************)
(* Properties of the sampling loop.                                        *)
(***************************************************************************)
\* A step of the loop that has taken a maze from add_maze.
Attempted == pc = "loop" /\ pc' = "loop" /\ attempts' = attempts + 1

EmptyResultIfUnreachable ==
    (pc = "path" /\ ~Reachable(maze)) => shortest_path = NoPath

\* Reachable, for the mazes handed over.
PoolReachable == [m \in GeneratedMazes |-> Reachable(m)]

UnreachableIsDiscarded ==
    (Attempted /\ ~PoolReachable[maze']) =>
        /\ shortest_path' = NoPath
        /\ UNCHANGED <<counts, seen_hashes, maze_index, accepted>>

\* C8: when the exit is not reachable compute_shortest_path returns the empty
\* result (no coordinates, directions or codes), and an attempt of the loop
\* on such a maze leaves the counters, the remembered fingerprints, the maze
\* index and the written mazes as they were and returns to the loop head.
UnreachableIsEmptyAndDiscarded ==
    [](EmptyResultIfUnreachable) /\ [][UnreachableIsDiscarded]_vars

\* The loop is back at its head after an attempt on an unreachable maze that
\* followed an accepted one.
UnreachableWitness ==
    /\ pc = "loop"
    /\ maze # None
    /\ accepted # EmptyBag
    /\ ~Reachable(maze)
    /\ shortest_path = NoPath
    /\ PoolHash[maze] \notin seen_hashes

\* C9: no two mazes written in a run have the same walls: a written maze is
\* written once, and a maze with the walls of a written one is not written
\* even when its entry and exit differ.
AcceptedWallsDiffer ==
    \A a, b \in BagToSet(accepted) :
        a.grid = b.grid => (a = b /\ CopiesIn(a, accepted) = 1)

\* The last attempt was on a maze with the walls of a written one but another
\* entry, and it has not been written.
AcceptedWallsDifferWitness ==
    /\ pc = "loop"
    /\ maze # None
    /\ ~BagIn(maze, accepted)
    /\ \E a \in BagToSet(accepted) :
          a.grid = maze.grid /\ a.entry_coor # maze.entry_coor
(***************************************************************************)
(* Vocabulary of labels and codes.                                         *)
(***************************************************************************)
\* The fixed mapping right = 3, down = 0, up = 1, left = 2.
CodeOf(label) ==
    IF label = "right" THEN 3
    ELSE IF label = "down" THEN 0
    ELSE IF label = "up" THEN 1
    ELSE 2

\* Labels and codes are parallel, from the vocabulary, and agree by CodeOf.
WellLabelled(directions, numeric) ==
    /\ Len(directions) = Len(numeric)
    /\ \A i \in 1..Len(directions) :
          /\ directions[i] \in {"up", "down", "left", "right"}
          /\ numeric[i] \in 0..3
          /\ numeric[i] = CodeOf(directions[i])

\* C11: in the shortest path and in every produced variant the labels are
\* among up, down, left, right, the codes among 0..3, both sequences have the
\* same length and each code is the code of the label at its index.
LabelsAndCodesAgree ==
    /\ pc \in {"path", "variants"} =>
          WellLabelled(shortest_path.directions, shortest_path.directions_numeric)
    /\ pc = "variants" =>
          \A v \in Produced : WellLabelled(v.directions, v.directions_numeric)

\* Three variants, the substitution having put "up" or "down" in the middle of
\* a path and the addition having appended "up" or "down".
LabelsAndCodesWitness ==
    /\ pc = "variants"
    /\ Cardinality(Produced) = 3
    /\ incorrect_paths.substitution.new_direction \in {"up", "down"}
    /\ incorrect_paths.substitution.modified_index >= 1
    /\ incorrect_paths.addition.added_direction \in {"up", "down"}
(***************************************************************************)
(* The search stays inside the grid.                                       *)
(***************************************************************************)
\* The cells that received a parent entry during the search of maze m.
Visited(m) == DOMAIN Search(m, <<m.entry_coor>>, (m.entry_coor :> None))

\* A border cell of m whose wall towards the outside of the grid is absent.
HasOpenBorder(m) ==
    \E cell \in DOMAIN m.grid : \E side \in SideSet :
        ~m.grid[cell][side] /\ Across(cell, side) \notin DOMAIN m.grid

\* C16: every cell the search visits and every coordinate it returns has
\* 0 <= row < num_rows and 0 <= col < num_cols, also when a border cell has
\* its outward wall absent.
SearchStaysInsideGrid ==
    Computed =>
        /\ \A cell \in Visited(maze) :
              /\ 0 <= cell[1] /\ cell[1] < maze.num_rows
              /\ 0 <= cell[2] /\ cell[2] < maze.num_cols
        /\ \A i \in 1..Len(shortest_path.coordinates) :
              LET cell == shortest_path.coordinates[i] IN
              /\ 0 <= cell[1] /\ cell[1] < maze.num_rows
              /\ 0 <= cell[2] /\ cell[2] < maze.num_cols

\* A search that visited the entry and the exit cell, both with their outward
\* wall absent, and returned a path of at least two steps.
SearchStaysInsideGridWitness ==
    /\ Computed
    /\ HasOpenBorder(maze)
    /\ ~maze.grid[maze.entry_coor][GateSide(maze.num_rows, maze.num_cols, maze.entry_coor)]
    /\ ~maze.grid[maze.exit_coor][GateSide(maze.num_rows, maze.num_cols, maze.exit_coor)]
    /\ maze.exit_coor \in Visited(maze)
    /\ Len(shortest_path.coordinates) >= 3
(***************************************************************************)
(* Running the path finder again.                                          *)
(***************************************************************************)
\* The routes of least length from entry to exit across absent walls.
ShortestRoutes(m) ==
    {q \in SimpleRoutes(m, <<m.entry_coor>>) : Len(q) = Distance(m) + 1}

\* A step that ran compute_shortest_path on the maze.
PathComputed == pc = "maze" /\ pc' = "path"

CountersInRange ==
    /\ DOMAIN counts = target_lengths
    /\ \A length \in target_lengths :
          0 <= counts[length] /\ counts[length] <= images_per_length
    /\ maze_index = 1 + BagCardinality(accepted)

\* A step that wrote a maze to the dataset.
Accepting == accepted' # accepted

\* No counter decreases; an accepting step has a path length among the
\* targets whose counter was below the quota, and raises that counter alone
\* by 1; any other attempt leaves the counters and maze_index alone.
CountersStep ==
    /\ \A length \in target_lengths : counts'[length] >= counts[length]
    /\ Accepting =>
          LET path_steps == Len(shortest_path'.directions) IN
          /\ path_steps \in target_lengths
          /\ counts[path_steps] < images_per_length
          /\ counts'[path_steps] = counts[path_steps] + 1
          /\ \A length \in target_lengths \ {path_steps} :
                counts'[length] = counts[length]
          /\ maze_index' = maze_index + 1
    /\ (Attempted /\ ~Accepting) =>
          (counts' = counts /\ maze_index' = maze_index)

\* C17: each counter stays between 0 and the quota and never decreases; a
\* maze is accepted only with a path length among the targets and a counter
\* below the quota, and raises exactly that counter by 1; between attempts
\* maze_index is 1 plus the number of accepted mazes; a rejected attempt
\* changes neither the counters nor maze_index.
CountersAndIndex == [](CountersInRange) /\ [][CountersStep]_vars

\* One counter is full, another has started, and each kind of rejection can
\* have happened: more attempts than acceptances, more fingerprints than
\* acceptances.
CountersAndIndexWitness ==
    /\ pc = "loop"
    /\ \E length \in target_lengths : counts[length] = images_per_length
    /\ \E length \in target_lengths :
          0 < counts[length] /\ counts[length] < images_per_length
    /\ maze_index >= 4
    /\ attempts > BagCardinality(accepted) + 1
    /\ Cardinality(seen_hashes) > BagCardinality(accepted)
(***************************************************************************)
(* The remembered fingerprints.                                            *)
(***************************************************************************)
\* The fingerprints of the mazes written to the dataset.
AcceptedHashes == {PoolHash[m] : m \in BagToSet(accepted)}

\* The remembered set never loses a fingerprint; an attempt whose maze has a
\* path leaves the maze's fingerprint remembered, accepted or not; an attempt
\* whose fingerprint was remembered already is not accepted and changes no
\* counter.
FingerprintStep ==
    /\ seen_hashes \subseteq seen_hashes'
    /\ (Attempted /\ shortest_path'.coordinates # <<>>) =>
          /\ PoolHash[maze'] \in seen_hashes'
          /\ PoolHash[maze'] \in seen_hashes =>
                (accepted' = accepted /\ counts' = counts)

\* C18: a fingerprint is remembered as soon as it passes the duplicate
\* check, before the path length and quota are examined, and the remembered
\* set never shrinks, so a maze skipped for its length or quota still makes
\* later mazes with the same walls duplicates.
FingerprintRememberedBeforeQuota == [][FingerprintStep]_vars

\* The maze of the last attempt has a fingerprint that is remembered although
\* no maze with that fingerprint was ever accepted.
FingerprintRememberedWitness ==
    /\ pc = "loop"
    /\ maze # None
    /\ shortest_path.coordinates # <<>>
    /\ PoolHash[maze] \in seen_hashes \ AcceptedHashes
    /\ accepted # EmptyBag
(***************************************************************************)
(* The end of the sampling loop.                                           *)
(***************************************************************************)
Stopped == pc \in {"done", "error"}

\* The loop has only stopped with every quota reached, or by the attempt
\* counter having gone over the budget; while it runs the budget is kept.
StoppedProperly ==
    /\ pc = "done" =>
          /\ \A length \in target_lengths : counts[length] = images_per_length
          /\ attempts <= max_attempts
    /\ pc = "error" =>
          /\ attempts > max_attempts
          /\ \E length \in target_lengths : counts[length] < images_per_length
    /\ pc = "loop" => attempts <= max_attempts

\* Once the counter is over the budget no maze is handed over, remembered or
\* accepted, and a step that goes over the budget does none of that either.
NothingAfterBudget ==
    (attempts > max_attempts \/ attempts' > max_attempts) =>
        /\ maze' = maze
        /\ seen_hashes' = seen_hashes
        /\ counts' = counts
        /\ accepted' = accepted
        /\ maze_index' = maze_index

\* C15: the loop always stops, and only with every target length at its
\* quota (completion) or with the attempt counter over the budget (error);
\* no maze is generated or accepted after the budget is exceeded.
LoopStops ==
    /\ <>Stopped
    /\ [](StoppedProperly)
    /\ [][NothingAfterBudget]_vars

\* The run failed on the budget with some mazes accepted and a quota open.
LoopStopsWitness ==
    /\ pc = "error"
    /\ attempts = max_attempts + 1
    /\ accepted # EmptyBag
    /\ \E length \in target_lengths : counts[length] = images_per_length
(***************************************************************************)
(* The mazes the generator hands over.                                     *)
(***************************************************************************)
Carved == pc \in {"maze", "shown", "path"}

\* C12: every maze the generator produces for R rows and C columns is
\* perfect: the absent walls between adjacent cells connect all R * C cells
\* with exactly R * C - 1 edges, there is exactly one simple route from the
\* entry to the exit, and the path finder does not return the empty result.
GeneratedIsPerfect ==
    Carved =>
        /\ IsPerfect(maze)
        /\ Cardinality(SimpleRoutes(maze, <<maze.entry_coor>>)) = 1
        /\ pc = "path" => shortest_path.coordinates # <<>>

\* A 3 x 3 maze whose carving stepped back at least once has been searched
\* and has a path of three or more steps.
GeneratedIsPerfectWitness ==
    /\ pc = "path"
    /\ maze.num_rows = rows /\ maze.num_cols = cols
    /\ Len(maze.generation_path) > rows * cols
    /\ Len(shortest_path.directions) >= 3

\* The two flags of the wall between each pair of adjacent cells agree.
Symmetric(grid, R, C) ==
    \A e \in InnerEdges(R, C) :
        grid[e[1]][Facing(e[1], e[2])] = grid[e[2]][Facing(e[2], e[1])]

\* C13: in every state reached while carving, in the finished grid and after
\* the animation has replayed the generation path, the wall between two
\* adjacent cells is absent on one side exactly if it is absent on the other.
WallSymmetry ==
    pc \in {"carve", "maze", "shown", "path"} =>
        Symmetric(maze.grid, maze.num_rows, maze.num_cols)

\* The animation has replayed a generation path with a step back on a grid
\* of two rows or more and two columns or more.
WallSymmetryWitness ==
    /\ pc = "shown"
    /\ maze.num_rows >= 2 /\ maze.num_cols >= 2
    /\ Len(maze.generation_path) > maze.num_rows * maze.num_cols
    /\ \E i \in 1..(Len(maze.generation_path) - 2) :
          maze.generation_path[i] = maze.generation_path[i + 2]
====
